---- MODULE Spec2Model ----
(***************************************************************************)
(* Coordination core of the Python swarms debugging tools:                 *)
(*   swarms_config.py       TerminalDebugSwarm (worker registry, dispatch) *)
(*   swarms_coordinator.py  SwarmsClaudeFlowCoordinator (memory store,     *)
(*                          hook gateway, session orchestrator, status,    *)
(*                          communication channel)                         *)
(*                                                                         *)
(* Python values are tagged records (PyNone, PyStr, ...); a Python dict is *)
(* a sequence of <<key, value>> pairs in insertion order.  The text that   *)
(* json.dumps writes is a JSON syntax tree ([js |-> ...]).                 *)
(***************************************************************************)
EXTENDS Integers, Sequences, FiniteSets, TLC

VARIABLES
    now,               \* int(datetime.now().timestamp()): the clock, in seconds
    swarm,             \* self.swarm: "None" or "TerminalDebugSwarm"
    agents,            \* self.swarm.agents: names, in registry order
    debug_memory,      \* self.swarm.debug_memory (a Python dict)
    coordination_log,  \* self.coordination_log
    dbExists,          \* os.path.exists(self.memory_db_path)
    memory_store,      \* the rows of table memory_store
    pc,                \* position of the single thread of control
    op,                \* the public operation being executed / last executed
    session_id,        \* local of coordinate_debugging_session
    issue,             \* issue_description of the running session
    context,           \* local `context` of coordinate_debugging_session
    results,           \* local `results` of coordinate_debugging / debug_results
    idx,               \* index of the next agent of the for loop
    session_data,      \* local session_data
    communication_data, \* local of communicate_with_claude_agents
    ret,               \* what the last public operation returned (or raised)
    prompts,           \* arguments of the agent.run calls of the running dispatch
    hookCalls,         \* _claude_flow_hook calls made so far (hook names)
    sessionHooks,      \* outcomes of the hook calls of the running session
    sessionFaults,     \* non-hook faults injected in the running session
    lastGet,           \* last load: key, outcome class, returned value
    lastPutOf,         \* per key: the data of the last successful direct put
    nSessions,         \* sessions started so far
    nSends,            \* messages sent so far
    nInits,            \* initialize_swarm calls so far
    faults             \* environment faults injected so far

vars == <<now, swarm, agents, debug_memory, coordination_log, dbExists,
          memory_store, pc, op, session_id, issue, context, results, idx,
          session_data, communication_data, ret, prompts, hookCalls, sessionHooks, sessionFaults,
          lastGet, lastPutOf, nSessions, nSends, nInits, faults>>

----------------------------------------------------------------------------
(* Bounds of the model *)

MaxTime == 1
MaxSessions == 2
MaxSends == 2
MaxFaults == 3
MaxInits == 1

----------------------------------------------------------------------------
(* Python values *)

PyNone == [ty |-> "none"]
PyStr(s) == [ty |-> "str", s |-> s]
PyInt(n) == [ty |-> "int", n |-> n]
PyBool(b) == [ty |-> "bool", b |-> b]
PyList(xs) == [ty |-> "list", items |-> xs]
PyTuple(xs) == [ty |-> "tuple", items |-> xs]
PyDict(pairs) == [ty |-> "dict", items |-> pairs]
PyObject == [ty |-> "object"]

EmptyDict == PyDict(<<>>)

HasKey(d, k) == \E i \in 1..Len(d.items) : d.items[i][1] = k

DictGet(d, k) ==
    LET i == CHOOSE j \in 1..Len(d.items) : d.items[j][1] = k
    IN  d.items[i][2]

\* d[k] = v: an existing key keeps its position, a new key goes last
DictSet(d, k, v) ==
    IF HasKey(d, k)
    THEN PyDict([i \in 1..Len(d.items) |->
                    IF d.items[i][1] = k THEN <<k, v>> ELSE d.items[i]])
    ELSE PyDict(Append(d.items, <<k, v>>))

DictLen(d) == Len(d.items)

RECURSIVE DictMerge(_, _)
\* {**a, **b}
DictMerge(a, b) ==
    IF Len(b.items) = 0 THEN a
    ELSE DictMerge(DictSet(a, b.items[1][1], b.items[1][2]),
                   PyDict(Tail(b.items)))

\* bool(v)
Truthy(v) ==
    CASE v.ty = "none" -> FALSE
      [] v.ty = "str" -> v.s # ""
      [] v.ty = "int" -> v.n # 0
      [] v.ty = "bool" -> v.b
      [] v.ty \in {"list", "tuple", "dict"} -> Len(v.items) > 0
      [] OTHER -> TRUE

----------------------------------------------------------------------------
(* json.dumps / json.loads *)

JsonGarbage == [js |-> "garbage"]

RECURSIVE Serializable(_)
\* json.dumps(v) does not raise TypeError
Serializable(v) ==
    CASE v.ty \in {"none", "str", "int", "bool"} -> TRUE
      [] v.ty \in {"list", "tuple"} ->
            \A i \in 1..Len(v.items) : Serializable(v.items[i])
      [] v.ty = "dict" ->
            \A i \in 1..Len(v.items) :
                /\ v.items[i][1].ty \in {"str", "int", "bool", "none"}
                /\ Serializable(v.items[i][2])
      [] OTHER -> FALSE

\* the member name json.dumps writes for a dict key
KeyText(k) ==
    CASE k.ty = "str" -> k.s
      [] k.ty = "int" -> ToString(k.n)
      [] k.ty = "bool" -> IF k.b THEN "true" ELSE "false"
      [] OTHER -> "null"

RECURSIVE json_dumps(_)
json_dumps(v) ==
    CASE v.ty = "none" -> [js |-> "null"]
      [] v.ty = "str" -> [js |-> "string", s |-> v.s]
      [] v.ty = "int" -> [js |-> "number", n |-> v.n]
      [] v.ty = "bool" -> [js |-> "bool", b |-> v.b]
      [] v.ty \in {"list", "tuple"} ->
            [js |-> "array",
             items |-> [i \in 1..Len(v.items) |-> json_dumps(v.items[i])]]
      [] OTHER ->
            [js |-> "object",
             members |-> [i \in 1..Len(v.items) |->
                            <<KeyText(v.items[i][1]), json_dumps(v.items[i][2])>>]]

RECURSIVE json_loads(_)
RECURSIVE LoadMembers(_, _)
\* the dict of an object's members, a repeated name keeping its last value
LoadMembers(ms, acc) ==
    IF Len(ms) = 0 THEN acc
    ELSE LoadMembers(Tail(ms), DictSet(acc, PyStr(ms[1][1]), json_loads(ms[1][2])))

\* defined on well-formed text only (the caller tests text # JsonGarbage)
json_loads(t) ==
    CASE t.js = "null" -> PyNone
      [] t.js = "string" -> PyStr(t.s)
      [] t.js = "number" -> PyInt(t.n)
      [] t.js = "bool" -> PyBool(t.b)
      [] t.js = "array" ->
            PyList([i \in 1..Len(t.items) |-> json_loads(t.items[i])])
      [] OTHER -> LoadMembers(t.members, EmptyDict)

----------------------------------------------------------------------------
(* Memory store: table memory_store(key PRIMARY KEY, value, timestamp, ttl) *)

Row(key, text) == [key |-> key, value |-> text, timestamp |-> now, ttl |-> "NULL"]

\* a slip: a plain INSERT into a table whose key is not a primary key
InsertOnly(rows, row) == rows \cup {row}

\* INSERT OR REPLACE: the row holding the key is deleted, the new row inserted
InsertOrReplace(rows, row) ==
    {r \in rows : r.key # row.key} \cup {row}

\* SELECT value FROM memory_store WHERE key = ?  (the rows found)
SelectValue(rows, key) == {r \in rows : r.key = key}

\* cursor.fetchone() on a result that holds a row
FetchOne(found) == CHOOSE r \in found : TRUE

\* _store_coordination_memory(key, data); io_error: makedirs/connect/execute
\* raises.  Gives the returned flag and the store afterwards.  CREATE TABLE
\* runs outside a transaction, so a TypeError of json.dumps (raised while
\* the INSERT's arguments are evaluated) leaves the file created.
StoreCoordinationMemory(key, data, io_error) ==
    IF io_error
    THEN [returned |-> FALSE, exists |-> dbExists, rows |-> memory_store]
    ELSE IF ~Serializable(data)
    THEN [returned |-> FALSE, exists |-> TRUE, rows |-> memory_store]
    ELSE [returned |-> TRUE, exists |-> TRUE,
          rows |-> InsertOrReplace(memory_store, Row(key, json_dumps(data)))]

\* a slip: the JSONDecodeError of a corrupted record leaves the function
LoadCoordinationMemoryRaising(key, io_error) ==
    LET found == SelectValue(memory_store, key) IN
    IF ~dbExists THEN [outcome |-> "absent", value |-> PyNone]
    ELSE IF io_error THEN [outcome |-> "io_error", value |-> PyNone]
    ELSE IF found = {} THEN [outcome |-> "absent", value |-> PyNone]
    ELSE IF FetchOne(found).value = JsonGarbage
         THEN [outcome |-> "decode_error",
               value |-> [ty |-> "exception", msg |-> "JSONDecodeError"]]
    ELSE [outcome |-> "value", value |-> json_loads(FetchOne(found).value)]

\* _load_coordination_memory(key); io_error: connect/execute raises.
\* Gives the returned value and, for the record, the class of the outcome.
LoadCoordinationMemory(key, io_error) ==
    LET found == SelectValue(memory_store, key) IN
    IF ~dbExists THEN [outcome |-> "absent", value |-> PyNone]
    ELSE IF io_error THEN [outcome |-> "io_error", value |-> PyNone]
    ELSE IF found = {} THEN [outcome |-> "absent", value |-> PyNone]
    ELSE IF FetchOne(found).value = JsonGarbage
         THEN [outcome |-> "decode_error", value |-> PyNone]
    ELSE [outcome |-> "value", value |-> json_loads(FetchOne(found).value)]

----------------------------------------------------------------------------
(* Hook gateway *)

HookOutcomes == {"zero", "nonzero", "raise"}

LogEntry(hook_name, params, success) ==
    [timestamp |-> now, hook |-> hook_name, params |-> params, success |-> success]

\* _claude_flow_hook: the log after the call.  "raise" is subprocess.run
\* raising (TimeoutExpired after 30 s, or the launch failing).
HookLog(log, hook_name, params, outcome) ==
    CASE outcome = "zero" -> Append(log, LogEntry(hook_name, params, TRUE))
      [] outcome = "nonzero" -> Append(log, LogEntry(hook_name, params, FALSE))
      [] OTHER -> log

\* _claude_flow_hook: the returned flag
HookReturn(outcome) == outcome = "zero"

----------------------------------------------------------------------------
(* Worker registry *)

\* create_debug_agents: the five agents, in registry order
create_debug_agents ==
    <<"FrontendDebugger", "BackendDebugger", "SystemIntegrator",
      "TestCoordinator", "PerformanceAnalyzer">>

\* what agent.run returns when it returns: a text naming the agent and the
\* session it was called in
Response(agent) == PyStr(agent \o "#" \o ToString(nSessions))

ErrorMessages == {"boom"}

\* f"Error: {str(e)}"
ErrorResult(msg) == PyStr("Error: " \o msg)

Sentinel == PyStr("No agents available for solution generation")

----------------------------------------------------------------------------
(* Inputs and keys *)

Issues == {"tab bar broken"}

ContextInputs == {PyNone, PyDict(<<<<PyStr("branch"), PyStr("main")>>>>)}

Messages == {"ready"}

Targets == {"all"}

ContextKey == "swarms/debugging/context"
MetadataKey == "swarms/metadata"
SessionsPrefix == "swarms/debugging/sessions"
SessionKey(sid) == SessionsPrefix \o "/" \o sid
CommKey(t) == "swarms/communication/" \o ToString(t)
SessionId(t) == "debug-session-" \o ToString(t)

\* what another process may have left under swarms/debugging/context
ExternalTexts ==
    { json_dumps(PyDict(<<<<PyStr("note"), PyStr("seen before")>>>>)),
      json_dumps(EmptyDict),
      JsonGarbage }

Running == [ty |-> "running"]
Raised(msg) == [ty |-> "exception", msg |-> msg]
NoCall == [ty |-> "nocall"]
NoGet == [key |-> "", outcome |-> "none", value |-> PyNone]

TestKeys == {"k1", "k2"}

TestValues ==
    { PyStr("a"),
      PyList(<<PyStr("a")>>),
      PyTuple(<<PyStr("a")>>),
      PyDict(<<<<PyStr("1"), PyStr("a")>>>>),
      PyDict(<<<<PyInt(1), PyStr("a")>>>>),
      PyObject }

NeverPut == [written |-> FALSE, data |-> PyNone]

NotInitialized == PyDict(<<<<PyStr("error"), PyStr("Swarm not initialized")>>>>)

CanFail == faults < MaxFaults
IoChoices == IF CanFail THEN {FALSE, TRUE} ELSE {FALSE}
HookChoices == IF CanFail THEN HookOutcomes ELSE {"zero"}
Cost(b) == IF b THEN 1 ELSE 0

----------------------------------------------------------------------------
(* Initial state: SwarmsClaudeFlowCoordinator(), nothing on disk *)

InitProgram ==
    /\ now = 0
    /\ swarm = "None"
    /\ agents = <<>>
    /\ debug_memory = EmptyDict
    /\ coordination_log = <<>>
    /\ dbExists = FALSE
    /\ memory_store = {}
    /\ pc = "idle"
    /\ op = "new"
    /\ session_id = ""
    /\ issue = ""
    /\ context = PyNone
    /\ results = EmptyDict
    /\ idx = 1
    /\ session_data = EmptyDict
    /\ communication_data = EmptyDict
    /\ ret = NoCall
    /\ prompts = <<>>
    /\ hookCalls = <<>>
    /\ sessionHooks = <<>>
    /\ sessionFaults = {}
    /\ lastGet = NoGet
    /\ lastPutOf = [k \in TestKeys |-> NeverPut]
    /\ nSessions = 0
    /\ nSends = 0
    /\ nInits = 0

\* an environment that may fail up to MaxFaults times
Init == InitProgram /\ faults = 0

\* an environment in which nothing fails
InitHealthy == InitProgram /\ faults = MaxFaults

sessionLocals == <<session_id, issue, context, results, idx, session_data, prompts,
                   sessionHooks, sessionFaults>>
registry == <<swarm, agents, debug_memory>>
disk == <<dbExists, memory_store>>
directCalls == <<lastPutOf, communication_data>>
counters == <<nSessions, nSends, nInits>>

\* one _claude_flow_hook call
CallHook(hook_name, params, outcome) ==
    /\ coordination_log' = HookLog(coordination_log, hook_name, params, outcome)
    /\ hookCalls' = Append(hookCalls, [hook |-> hook_name, outcome |-> outcome,
                                        returned |-> HookReturn(outcome)])

\* one _store_coordination_memory call
CallStore(key, data, io_error) ==
    LET r == StoreCoordinationMemory(key, data, io_error) IN
    /\ dbExists' = r.exists
    /\ memory_store' = r.rows

----------------------------------------------------------------------------
(* initialize_swarm *)

\* lines 26-30: create_terminal_debug_swarm() returns or raises
InitializeSwarm ==
    /\ pc = "idle"
    /\ nInits < MaxInits
    /\ \E raises \in IoChoices :
        /\ faults' = faults + Cost(raises)
        /\ IF raises
           THEN /\ pc' = "init_failed"
                /\ UNCHANGED registry
           ELSE /\ pc' = "init_hook"
                /\ swarm' = "TerminalDebugSwarm"
                /\ agents' = create_debug_agents
                /\ debug_memory' = EmptyDict
    /\ op' = "initialize_swarm"
    /\ ret' = Running
    /\ nInits' = nInits + 1
    /\ UNCHANGED <<now, coordination_log, disk, sessionLocals, hookCalls,
                   lastGet, directCalls, nSessions, nSends>>

\* lines 33-36
InitNotify ==
    /\ pc = "init_hook"
    /\ \E outcome \in HookChoices :
        /\ CallHook("notify", <<<<"level", "success">>>>, outcome)
        /\ faults' = faults + Cost(outcome # "zero")
    /\ pc' = "init_store"
    /\ UNCHANGED <<now, registry, disk, op, sessionLocals, ret, lastGet,
                   directCalls, counters>>

\* lines 39-49
InitStoreMetadata ==
    /\ pc = "init_store"
    /\ \E io_error \in IoChoices :
        /\ CallStore(MetadataKey,
                     PyDict(<< <<PyStr("initialized_at"), PyStr(ToString(now))>>,
                               <<PyStr("agent_count"), PyInt(Len(agents))>>,
                               <<PyStr("agent_names"),
                                 PyList([i \in 1..Len(agents) |-> PyStr(agents[i])])>>,
                               <<PyStr("coordination_type"), PyStr("parallel_debugging")>> >>),
                     io_error)
        /\ faults' = faults + Cost(io_error)
    /\ ret' = PyBool(TRUE)
    /\ pc' = "idle"
    /\ UNCHANGED <<now, registry, coordination_log, op, sessionLocals, hookCalls,
                   lastGet, directCalls, counters>>

\* lines 51-57
InitFailedNotify ==
    /\ pc = "init_failed"
    /\ \E outcome \in HookChoices :
        /\ CallHook("notify", <<<<"level", "error">>>>, outcome)
        /\ faults' = faults + Cost(outcome # "zero")
    /\ ret' = PyBool(FALSE)
    /\ pc' = "idle"
    /\ UNCHANGED <<now, registry, disk, op, sessionLocals, lastGet,
                   directCalls, counters>>

----------------------------------------------------------------------------
(* coordinate_debugging_session *)

\* a slip: the registry is built on demand before the error is returned
RejectAfterConstruction ==
    /\ ret' = NotInitialized
    /\ swarm' = "TerminalDebugSwarm"
    /\ agents' = create_debug_agents
    /\ debug_memory' = EmptyDict
    /\ UNCHANGED <<coordination_log, disk, hookCalls, pc, sessionLocals, nSessions>>

\* lines 62-64: `if not self.swarm`: the error result, nothing else
RejectUninitialized ==
    /\ ret' = NotInitialized
    /\ UNCHANGED <<registry, coordination_log, disk, hookCalls, pc, sessionLocals,
                   nSessions>>

\* lines 59-68: the guard on self.swarm, then session_id
StartSession ==
    /\ pc = "idle"
    /\ nSessions < MaxSessions
    /\ \E i \in Issues, c \in ContextInputs :
        IF swarm = "None"
        THEN RejectUninitialized
        ELSE /\ UNCHANGED <<registry, coordination_log, disk, hookCalls>>
             /\ session_id' = SessionId(now)
             /\ issue' = i
             /\ context' = c
             /\ results' = EmptyDict
             /\ idx' = 1
             /\ session_data' = EmptyDict
             /\ prompts' = <<>>
             /\ sessionHooks' = <<>>
             /\ sessionFaults' = {}
             /\ nSessions' = nSessions + 1
             /\ ret' = Running
             /\ pc' = "pre_task"
    /\ op' = "coordinate_debugging_session"
    /\ UNCHANGED <<now, lastGet, directCalls, nSends, nInits, faults>>

\* a hook call of the running session
SessionHook(hook_name, params) ==
    \E outcome \in HookChoices :
        /\ CallHook(hook_name, params, outcome)
        /\ sessionHooks' = Append(sessionHooks, [hook |-> hook_name, outcome |-> outcome])
        /\ faults' = faults + Cost(outcome # "zero")

\* a slip: what subprocess.run raises is not caught and ends the session
PreTaskHookFatal ==
    /\ pc = "pre_task"
    /\ \E outcome \in HookChoices :
        /\ CallHook("pre-task", <<<<"task-id", session_id>>>>, outcome)
        /\ sessionHooks' = Append(sessionHooks, [hook |-> "pre-task", outcome |-> outcome])
        /\ faults' = faults + Cost(outcome # "zero")
        /\ pc' = IF outcome = "raise" THEN "idle" ELSE "load_context"
        /\ ret' = IF outcome = "raise" THEN Raised("hook") ELSE ret
    /\ UNCHANGED <<now, registry, disk, op, session_id, issue, context, results, idx,
                   session_data, prompts, sessionFaults, lastGet, directCalls,
                   counters>>

\* lines 70-74
PreTaskHook ==
    /\ pc = "pre_task"
    /\ SessionHook("pre-task", <<<<"task-id", session_id>>>>)
    /\ pc' = "load_context"
    /\ UNCHANGED <<now, registry, disk, op, session_id, issue, context, results, idx,
                   session_data, communication_data, ret, prompts, sessionFaults, lastGet, directCalls,
                   counters>>

\* a slip: `if previous_context is not None`: an empty record is merged too
LoadPreviousContextIfPresent ==
    /\ pc = "load_context"
    /\ \E io_error \in IoChoices :
        LET got == LoadCoordinationMemory(ContextKey, io_error)
            previous_context == got.value
        IN  /\ lastGet' = [key |-> ContextKey, outcome |-> got.outcome, value |-> got.value]
            /\ context' = IF previous_context.ty # "none"
                          THEN DictMerge(IF Truthy(context) THEN context ELSE EmptyDict,
                                         PyDict(<<<<PyStr("previous_findings"),
                                                   previous_context>>>>))
                          ELSE context
            /\ faults' = faults + Cost(got.outcome = "io_error")
            /\ sessionFaults' = IF got.outcome = "io_error"
                                THEN sessionFaults \cup {"load"} ELSE sessionFaults
    /\ pc' = "coordinate_debugging"
    /\ UNCHANGED <<now, registry, coordination_log, disk, op, session_id, issue,
                   results, idx, session_data, ret, prompts, hookCalls, sessionHooks,
                   directCalls, counters>>

\* lines 76-80
LoadPreviousContext ==
    /\ pc = "load_context"
    /\ \E io_error \in IoChoices :
        LET got == LoadCoordinationMemory(ContextKey, io_error)
            previous_context == got.value
        IN  /\ lastGet' = [key |-> ContextKey, outcome |-> got.outcome, value |-> got.value]
            /\ context' = IF Truthy(previous_context)
                          THEN DictMerge(IF Truthy(context) THEN context ELSE EmptyDict,
                                         PyDict(<<<<PyStr("previous_findings"),
                                                   previous_context>>>>))
                          ELSE context
            /\ faults' = faults + Cost(got.outcome = "io_error")
            /\ sessionFaults' = IF got.outcome = "io_error"
                                THEN sessionFaults \cup {"load"} ELSE sessionFaults
    /\ pc' = "coordinate_debugging"
    /\ UNCHANGED <<now, registry, coordination_log, disk, op, session_id, issue,
                   results, idx, session_data, ret, prompts, hookCalls, sessionHooks,
                   directCalls, counters>>

\* self.debug_memory.get('agent_findings', {})
AgentFindings ==
    IF HasKey(debug_memory, PyStr("agent_findings"))
    THEN DictGet(debug_memory, PyStr("agent_findings"))
    ELSE EmptyDict

\* a slip: the shared findings of the previous dispatch are kept
CoordinateDebuggingStartKeeping ==
    /\ pc = "coordinate_debugging"
    /\ results' = EmptyDict
    /\ debug_memory' = DictSet(DictSet(debug_memory, PyStr("current_issue"), PyStr(issue)),
                               PyStr("agent_findings"), AgentFindings)
    /\ idx' = 1
    /\ pc' = IF Len(agents) = 0 THEN "store_session" ELSE "agent_run"
    /\ UNCHANGED <<now, swarm, agents, coordination_log, disk, op, session_id, issue,
                   context, session_data, ret, prompts, hookCalls, sessionHooks,
                   sessionFaults, lastGet, directCalls, counters, faults>>

\* swarms_config.py lines 100-109: results = {} and the shared memory reset
CoordinateDebuggingStart ==
    /\ pc = "coordinate_debugging"
    /\ results' = EmptyDict
    /\ debug_memory' = DictSet(DictSet(debug_memory, PyStr("current_issue"), PyStr(issue)),
                               PyStr("agent_findings"), EmptyDict)
    /\ idx' = 1
    /\ pc' = IF Len(agents) = 0 THEN "store_session" ELSE "agent_run"
    /\ UNCHANGED <<now, swarm, agents, coordination_log, disk, op, session_id, issue,
                   context, session_data, ret, prompts, hookCalls, sessionHooks,
                   sessionFaults, lastGet, directCalls, counters, faults>>

\* a slip: the response is recorded in the result mapping only
RecordResponseLocal(agent, response) ==
    /\ results' = DictSet(results, PyStr(agent), response)
    /\ UNCHANGED debug_memory

\* swarms_config.py lines 133-134: the try body after agent.run returned
RecordResponse(agent, response) ==
    /\ results' = DictSet(results, PyStr(agent), response)
    /\ debug_memory' = DictSet(debug_memory, PyStr("agent_findings"),
                               DictSet(AgentFindings, PyStr(agent), response))

\* a slip: the error text is shared with the later workers as well
RecordErrorShared(agent, msg) ==
    /\ results' = DictSet(results, PyStr(agent), ErrorResult(msg))
    /\ debug_memory' = DictSet(debug_memory, PyStr("agent_findings"),
                               DictSet(AgentFindings, PyStr(agent), ErrorResult(msg)))

\* a slip: the bare message is recorded, without the "Error: " prefix
RecordErrorBare(agent, msg) ==
    /\ results' = DictSet(results, PyStr(agent), PyStr(msg))
    /\ UNCHANGED debug_memory

\* swarms_config.py lines 136-138: the except branch
RecordError(agent, msg) ==
    /\ results' = DictSet(results, PyStr(agent), ErrorResult(msg))
    /\ UNCHANGED debug_memory

\* one agent.run call: its argument, and whether it returned or raised
RunCall(agent, kind, findings, returned, error) ==
    [agent |-> agent, kind |-> kind, issue |-> issue, findings |-> findings,
     returned |-> returned, error |-> error]

\* a slip: a worker that raised is called again instead of being passed over
AgentRunRetrying ==
    /\ pc = "agent_run"
    /\ idx <= Len(agents)
    /\ LET agent == agents[idx] IN
        \/ /\ RecordResponse(agent, Response(agent))
           /\ prompts' = Append(prompts, RunCall(agent, "analyze", AgentFindings, TRUE, ""))
           /\ idx' = idx + 1
           /\ pc' = IF idx = Len(agents) THEN "store_session" ELSE "agent_run"
           /\ UNCHANGED <<faults, sessionFaults>>
        \/ /\ CanFail
           /\ \E msg \in ErrorMessages :
                /\ RecordError(agent, msg)
                /\ prompts' = Append(prompts,
                                     RunCall(agent, "analyze", AgentFindings, FALSE, msg))
           /\ faults' = faults + 1
           /\ sessionFaults' = sessionFaults \cup {"agent"}
           /\ UNCHANGED <<idx, pc>>
    /\ UNCHANGED <<now, swarm, agents, coordination_log, disk, op, session_id, issue,
                   context, session_data, ret, hookCalls, sessionHooks, lastGet,
                   directCalls, counters>>

\* swarms_config.py lines 112-138: one iteration of the for loop
AgentRun ==
    /\ pc = "agent_run"
    /\ idx <= Len(agents)
    /\ LET agent == agents[idx] IN
        \/ /\ RecordResponse(agent, Response(agent))
           /\ prompts' = Append(prompts, RunCall(agent, "analyze", AgentFindings, TRUE, ""))
           /\ UNCHANGED <<faults, sessionFaults>>
        \/ /\ CanFail
           /\ \E msg \in ErrorMessages :
                /\ RecordError(agent, msg)
                /\ prompts' = Append(prompts,
                                     RunCall(agent, "analyze", AgentFindings, FALSE, msg))
           /\ faults' = faults + 1
           /\ sessionFaults' = sessionFaults \cup {"agent"}
    /\ idx' = idx + 1
    /\ pc' = IF idx = Len(agents) THEN "store_session" ELSE "agent_run"
    /\ UNCHANGED <<now, swarm, agents, coordination_log, disk, op, session_id, issue,
                   context, session_data, ret, hookCalls, sessionHooks, lastGet,
                   directCalls, counters>>

\* lines 86-92
SessionData ==
    PyDict(<< <<PyStr("session_id"), PyStr(session_id)>>,
              <<PyStr("issue"), PyStr(issue)>>,
              <<PyStr("timestamp"), PyStr(ToString(now))>>,
              <<PyStr("agent_results"), results>>,
              <<PyStr("context"), IF Truthy(context) THEN context ELSE EmptyDict>> >>)

\* a slip: a failed write of the session record ends the session
StoreSessionFatal ==
    /\ pc = "store_session"
    /\ session_data' = SessionData
    /\ \E io_error \in IoChoices :
        /\ CallStore(SessionKey(session_id), SessionData, io_error)
        /\ faults' = faults + Cost(io_error)
        /\ sessionFaults' = IF io_error THEN sessionFaults \cup {"store"} ELSE sessionFaults
        /\ pc' = IF io_error THEN "idle" ELSE "solve"
        /\ ret' = IF io_error THEN Raised("store") ELSE ret
    /\ UNCHANGED <<now, registry, coordination_log, op, session_id, issue, context,
                   results, idx, prompts, hookCalls, sessionHooks, lastGet,
                   directCalls, counters>>

\* lines 85-94
StoreSession ==
    /\ pc = "store_session"
    /\ session_data' = SessionData
    /\ \E io_error \in IoChoices :
        /\ CallStore(SessionKey(session_id), SessionData, io_error)
        /\ faults' = faults + Cost(io_error)
        /\ sessionFaults' = IF io_error THEN sessionFaults \cup {"store"} ELSE sessionFaults
    /\ pc' = "solve"
    /\ UNCHANGED <<now, registry, coordination_log, op, session_id, issue, context,
                   results, idx, ret, prompts, hookCalls, sessionHooks, lastGet,
                   directCalls, counters>>

\* lines 96-98 and swarms_config.py lines 142-164: coordinator.run is called
\* outside any try, so what it raises leaves coordinate_debugging_session
GenerateSolution ==
    /\ pc = "solve"
    /\ IF Len(agents) = 0
       THEN /\ session_data' = DictSet(session_data, PyStr("coordinated_solution"), Sentinel)
            /\ pc' = "post_task"
            /\ UNCHANGED <<ret, prompts, faults, sessionFaults>>
       ELSE /\ \/ /\ session_data' = DictSet(session_data, PyStr("coordinated_solution"),
                                             PyStr("solution#" \o ToString(nSessions)))
                  /\ prompts' = Append(prompts,
                                       RunCall(agents[1], "synthesize", results, TRUE, ""))
                  /\ pc' = "post_task"
                  /\ UNCHANGED <<ret, faults, sessionFaults>>
               \/ /\ CanFail
                  /\ \E msg \in ErrorMessages :
                        /\ ret' = Raised(msg)
                        /\ prompts' = Append(prompts,
                                             RunCall(agents[1], "synthesize", results, FALSE, msg))
                  /\ pc' = "idle"
                  /\ faults' = faults + 1
                  /\ sessionFaults' = sessionFaults \cup {"solve"}
                  /\ UNCHANGED session_data
    /\ UNCHANGED <<now, registry, coordination_log, disk, op, session_id, issue,
                   context, results, idx, hookCalls, sessionHooks, lastGet,
                   directCalls, counters>>

\* lines 100-105
PostTaskHook ==
    /\ pc = "post_task"
    /\ SessionHook("post-task", <<<<"task-id", session_id>>>>)
    /\ pc' = "notify"
    /\ UNCHANGED <<now, registry, disk, op, session_id, issue, context, results, idx,
                   session_data, communication_data, ret, prompts, sessionFaults, lastGet, directCalls,
                   counters>>

\* lines 107-117
NotifyAndReturn ==
    /\ pc = "notify"
    /\ SessionHook("notify", <<<<"level", "success">>>>)
    /\ ret' = session_data
    /\ pc' = "idle"
    /\ UNCHANGED <<now, registry, disk, op, session_id, issue, context, results, idx,
                   session_data, prompts, sessionFaults, lastGet, directCalls,
                   counters>>

----------------------------------------------------------------------------
(* get_coordination_status *)

\* a slip: the store is opened without the os.path.exists test, and
\* sqlite3.connect creates the file
GetCoordinationStatusConnecting ==
    /\ pc = "idle"
    /\ \E io_error \in IoChoices :
        LET got == LoadCoordinationMemory(SessionsPrefix, io_error)
            sessions == IF Truthy(got.value) THEN got.value ELSE EmptyDict
            status == PyDict(<< <<PyStr("swarm_initialized"), PyBool(swarm # "None")>>,
                                <<PyStr("agent_count"),
                                  PyInt(IF swarm # "None" THEN Len(agents) ELSE 0)>>,
                                <<PyStr("coordination_log_entries"),
                                  PyInt(Len(coordination_log))>>,
                                <<PyStr("memory_db_exists"), PyBool(dbExists)>> >>)
            named == IF swarm # "None"
                     THEN DictSet(status, PyStr("agent_names"),
                                  PyList([i \in 1..Len(agents) |-> PyStr(agents[i])]))
                     ELSE status
        IN  /\ ret' = DictSet(named, PyStr("debugging_sessions"),
                              PyInt(IF sessions.ty = "dict" THEN DictLen(sessions) ELSE 0))
            /\ lastGet' = [key |-> SessionsPrefix, outcome |-> got.outcome,
                           value |-> got.value]
            /\ faults' = faults + Cost(got.outcome = "io_error")
    /\ op' = "get_coordination_status"
    /\ dbExists' = TRUE
    /\ UNCHANGED <<now, registry, coordination_log, memory_store, pc, sessionLocals,
                   hookCalls, directCalls, counters>>

\* lines 119-136
GetCoordinationStatus ==
    /\ pc = "idle"
    /\ \E io_error \in IoChoices :
        LET got == LoadCoordinationMemory(SessionsPrefix, io_error)
            sessions == IF Truthy(got.value) THEN got.value ELSE EmptyDict
            status == PyDict(<< <<PyStr("swarm_initialized"), PyBool(swarm # "None")>>,
                                <<PyStr("agent_count"),
                                  PyInt(IF swarm # "None" THEN Len(agents) ELSE 0)>>,
                                <<PyStr("coordination_log_entries"),
                                  PyInt(Len(coordination_log))>>,
                                <<PyStr("memory_db_exists"), PyBool(dbExists)>> >>)
            named == IF swarm # "None"
                     THEN DictSet(status, PyStr("agent_names"),
                                  PyList([i \in 1..Len(agents) |-> PyStr(agents[i])]))
                     ELSE status
        IN  /\ ret' = DictSet(named, PyStr("debugging_sessions"),
                              PyInt(IF sessions.ty = "dict" THEN DictLen(sessions) ELSE 0))
            /\ lastGet' = [key |-> SessionsPrefix, outcome |-> got.outcome,
                           value |-> got.value]
            /\ faults' = faults + Cost(got.outcome = "io_error")
    /\ op' = "get_coordination_status"
    /\ UNCHANGED <<now, registry, coordination_log, disk, pc, sessionLocals, hookCalls,
                   directCalls, counters>>

----------------------------------------------------------------------------
(* communicate_with_claude_agents *)

\* lines 138-151
CommunicateStore ==
    /\ pc = "idle"
    /\ nSends < MaxSends
    /\ \E message \in Messages, target_agent \in Targets, io_error \in IoChoices :
        LET data == PyDict(<< <<PyStr("timestamp"), PyStr(ToString(now))>>,
                              <<PyStr("from"), PyStr("python_swarms")>>,
                              <<PyStr("to"), PyStr(target_agent)>>,
                              <<PyStr("message"), PyStr(message)>>,
                              <<PyStr("session_active"), PyBool(swarm # "None")>> >>)
        IN  /\ communication_data' = data
            /\ CallStore(CommKey(now), data, io_error)
            /\ faults' = faults + Cost(io_error)
    /\ nSends' = nSends + 1
    /\ op' = "communicate_with_claude_agents"
    /\ ret' = Running
    /\ pc' = "comm_notify"
    /\ UNCHANGED <<now, registry, coordination_log, sessionLocals, hookCalls, lastGet,
                   lastPutOf, nSessions, nInits>>

\* lines 153-161
CommunicateNotify ==
    /\ pc = "comm_notify"
    /\ \E outcome \in HookChoices :
        /\ CallHook("notify", <<<<"level", "info">>>>, outcome)
        /\ faults' = faults + Cost(outcome # "zero")
    /\ ret' = communication_data
    /\ pc' = "idle"
    /\ UNCHANGED <<now, registry, disk, op, sessionLocals, lastGet, directCalls,
                   counters>>

----------------------------------------------------------------------------
(* The environment.  Clock ticks and writes of other processes are taken   *)
(* between public operations: session_id, the keys and the one read of     *)
(* swarms/debugging/context are each computed at one point of an           *)
(* operation, so a tick or a write inside an operation is seen as one      *)
(* before it or one after it.                                              *)

Tick ==
    /\ pc = "idle"
    /\ now < MaxTime
    /\ now' = now + 1
    /\ op' = "tick"
    /\ UNCHANGED <<registry, coordination_log, disk, pc, sessionLocals, ret, hookCalls,
                   lastGet, directCalls, counters, faults>>

\* another process (Claude Flow) leaves a record under swarms/debugging/context
ExternalWrite ==
    /\ pc = "idle"
    /\ \E text \in ExternalTexts :
        memory_store' = InsertOrReplace(memory_store, Row(ContextKey, text))
    /\ dbExists' = TRUE
    /\ op' = "external"
    /\ UNCHANGED <<now, registry, coordination_log, pc, sessionLocals, ret, hookCalls,
                   lastGet, directCalls, counters, faults>>

----------------------------------------------------------------------------
(* The memory store called directly: put = _store_coordination_memory,     *)
(* get = _load_coordination_memory                                          *)

StorePut ==
    /\ pc = "idle"
    /\ \E key \in TestKeys, data \in TestValues, io_error \in IoChoices :
        LET r == StoreCoordinationMemory(key, data, io_error) IN
        /\ dbExists' = r.exists
        /\ memory_store' = r.rows
        /\ ret' = PyBool(r.returned)
        /\ lastPutOf' = IF r.returned
                        THEN [lastPutOf EXCEPT ![key] = [written |-> TRUE, data |-> data]]
                        ELSE lastPutOf
        /\ faults' = faults + Cost(io_error)
    /\ lastGet' = NoGet
    /\ op' = "put"
    /\ UNCHANGED <<now, registry, coordination_log, pc, sessionLocals,
                   communication_data, hookCalls, counters>>

StoreGet ==
    /\ pc = "idle"
    /\ \E key \in TestKeys \cup {ContextKey}, io_error \in IoChoices :
        LET got == LoadCoordinationMemory(key, io_error) IN
        /\ lastGet' = [key |-> key, outcome |-> got.outcome, value |-> got.value]
        /\ ret' = got.value
        /\ faults' = faults + Cost(got.outcome = "io_error")
    /\ op' = "get"
    /\ UNCHANGED <<now, registry, coordination_log, disk, pc, sessionLocals,
                   hookCalls, directCalls, counters>>

----------------------------------------------------------------------------
(* Specifications *)

\* the first session of a coordinator
StartFirstSession == nSessions = 0 /\ StartSession

NextSession ==
    \/ InitializeSwarm
    \/ InitNotify
    \/ InitStoreMetadata
    \/ InitFailedNotify
    \/ StartFirstSession
    \/ PreTaskHook
    \/ LoadPreviousContext
    \/ CoordinateDebuggingStart
    \/ AgentRun
    \/ StoreSession
    \/ GenerateSolution
    \/ PostTaskHook
    \/ NotifyAndReturn
    \/ ExternalWrite

\* one debugging session, from construction of the coordinator, under up to
\* MaxFaults faults of hooks, store, agents and registry construction
SpecSession == Init /\ [][NextSession]_vars

NextHealthy ==
    \/ InitializeSwarm
    \/ InitNotify
    \/ InitStoreMetadata
    \/ StartSession
    \/ PreTaskHook
    \/ LoadPreviousContext
    \/ CoordinateDebuggingStart
    \/ AgentRun
    \/ StoreSession
    \/ GenerateSolution
    \/ PostTaskHook
    \/ NotifyAndReturn
    \/ GetCoordinationStatus
    \/ CommunicateStore
    \/ CommunicateNotify
    \/ Tick

\* every public operation, any number of times within the bounds, in an
\* environment in which nothing fails
SpecHealthy == InitHealthy /\ [][NextHealthy]_vars

NextStore ==
    \/ StorePut
    \/ StoreGet
    \/ ExternalWrite

\* the memory store alone, called directly
SpecStore == Init /\ [][NextStore]_vars

----------------------------------------------------------------------------
(* Properties *)

Key(d, name) == DictGet(d, PyStr(name))
Has(d, name) == d.ty = "dict" /\ HasKey(d, PyStr(name))
KeySet(d) == {d.items[k][1] : k \in 1..Len(d.items)}
AgentKeys(S) == {PyStr(agents[j]) : j \in S}

\* the analysis calls of the running dispatch are prompts[1..n], one per
\* agent, in registry order
Analyses == {i \in 1..Len(prompts) : prompts[i].kind = "analyze"}
Returned(S) == {j \in S : prompts[j].returned}

\* C1 as claimed: the findings handed to worker i are exactly the results
\* recorded in this dispatch for workers 1..i-1, and hold no entry of i..n
C1_AsClaimed ==
    \A i \in Analyses :
        /\ prompts[i].agent = agents[i]
        /\ KeySet(prompts[i].findings) = AgentKeys(1..(i - 1))
        /\ \A j \in 1..(i - 1) :
              DictGet(prompts[i].findings, PyStr(agents[j])) = DictGet(results, PyStr(agents[j]))

\* C1, amended: the findings handed to worker i are exactly the results of
\* those of workers 1..i-1 that returned without raising in this dispatch,
\* and hold no entry of workers i..n nor of a worker that raised
C1_Visibility ==
    \A i \in Analyses :
        /\ prompts[i].agent = agents[i]
        /\ KeySet(prompts[i].findings) = AgentKeys(Returned(1..(i - 1)))
        /\ \A j \in Returned(1..(i - 1)) :
              DictGet(prompts[i].findings, PyStr(agents[j])) = DictGet(results, PyStr(agents[j]))

\* the third worker was called after the first returned and the second raised
C1_Witness ==
    /\ pc = "agent_run"
    /\ idx = 4
    /\ prompts[1].returned
    /\ ~prompts[2].returned
    /\ KeySet(prompts[3].findings) = AgentKeys({1})

DispatchDone == pc \in {"store_session", "solve", "post_task", "notify"}

\* C2: a worker that raises does not stop the dispatch: once the loop is
\* over every worker has been called, a worker that raised has the result
\* "Error: <message>" and every other worker the result it returned
C2_WorkerIsolation ==
    DispatchDone =>
        /\ Analyses = 1..Len(agents)
        /\ KeySet(results) = AgentKeys(1..Len(agents))
        /\ \A i \in Analyses :
              /\ prompts[i].agent = agents[i]
              /\ DictGet(results, PyStr(agents[i])) =
                    IF prompts[i].returned THEN Response(agents[i])
                    ELSE PyStr("Error: " \o prompts[i].error)

\* the dispatch is over, the second worker raised, the others returned
C2_Witness ==
    /\ pc = "store_session"
    /\ Returned(Analyses) = {1, 3, 4, 5}
    /\ DictGet(results, PyStr("BackendDebugger")) = PyStr("Error: boom")
    /\ DictGet(results, PyStr("PerformanceAnalyzer")) = Response("PerformanceAnalyzer")

\* the last public operation was a session that got past the guard, and it
\* is over
SessionEnded ==
    /\ pc = "idle"
    /\ op = "coordinate_debugging_session"
    /\ swarm # "None"
    /\ nSessions > 0

SessionRows == {r \in memory_store : r.key = SessionKey(session_id)}

\* a complete DebugSession record: a result for every worker and a solution
CompleteRecord(d) ==
    /\ d.ty = "dict"
    /\ Has(d, "session_id") /\ Has(d, "issue") /\ Has(d, "context")
    /\ Has(d, "agent_results")
    /\ KeySet(Key(d, "agent_results")) = AgentKeys(1..Len(agents))
    /\ Has(d, "coordinated_solution")

\* C3 as claimed: every session started on an initialized coordinator ends
\* by returning the complete record after the three hooks, whatever failed
C3_AsClaimed ==
    SessionEnded => CompleteRecord(ret) /\ Len(sessionHooks) = 3

\* every hook call of the session failed, and neither the store write nor
\* the synthesis call did
OnlyHooksFailed ==
    /\ Len(sessionHooks) >= 1
    /\ \A i \in 1..Len(sessionHooks) : sessionHooks[i].outcome # "zero"
    /\ sessionFaults \cap {"store", "solve"} = {}

\* C4: when every hook call of a session fails (non-zero exit or raise) and
\* nothing but hooks and worker analyses fails, the session still calls every
\* worker, writes the session record and returns the complete record
C4_HookFailureNotFatal ==
    (SessionEnded /\ OnlyHooksFailed) =>
        /\ Analyses = 1..Len(agents)
        /\ \E r \in SessionRows :
              Key(json_loads(r.value), "agent_results") = results
        /\ CompleteRecord(ret)
        /\ Key(ret, "agent_results") = results

\* a session ended whose three hook calls failed, one by raising and one by
\* a non-zero exit
C4_Witness ==
    /\ SessionEnded
    /\ OnlyHooksFailed
    /\ Len(sessionHooks) = 3
    /\ sessionHooks[1].outcome = "raise"
    /\ sessionHooks[2].outcome = "nonzero"
    /\ CompleteRecord(ret)
    /\ SessionRows # {}

\* C5 as claimed: the solution is produced before the store write, so the
\* record under swarms/debugging/sessions/<session_id> is the record returned
C5_AsClaimed ==
    (SessionEnded /\ ret.ty = "dict" /\ "store" \notin sessionFaults) =>
        \E r \in SessionRows : json_loads(r.value) = ret

\* C6 as claimed: every hook call appends exactly one log entry, whose
\* success flag is the flag the call returned
C6_AsClaimed ==
    /\ Len(coordination_log) = Len(hookCalls)
    /\ \A i \in 1..Len(hookCalls) :
          /\ coordination_log[i].hook = hookCalls[i].hook
          /\ coordination_log[i].success = hookCalls[i].returned

\* C10: coordinate_debugging_session on a coordinator without a registry
\* returns the "not initialized" error and leaves registry, log, store,
\* hooks and agents untouched
C10_NotInitialized ==
    [][(pc = "idle" /\ swarm = "None" /\ op' = "coordinate_debugging_session") =>
          /\ ret' = NotInitialized
          /\ pc' = "idle"
          /\ UNCHANGED <<swarm, agents, debug_memory, coordination_log, dbExists,
                         memory_store, hookCalls, prompts, nSessions>>]_vars

\* the call was rejected on a coordinator whose initialization had failed
\* and had logged a notification
C10_Witness ==
    /\ op = "coordinate_debugging_session"
    /\ ret = NotInitialized
    /\ swarm = "None"
    /\ Len(coordination_log) = 1

SessionKeys == {SessionKey(SessionId(t)) : t \in 0..MaxTime}
PersistedSessions == {r \in memory_store : r.key \in SessionKeys}

\* C7 as claimed: status() reports as debugging_sessions the number of
\* session records in the store, and as agent_count the number of workers
C7_AsClaimed ==
    (pc = "idle" /\ op = "get_coordination_status") =>
        /\ Key(ret, "agent_count") = PyInt(Len(agents))
        /\ Key(ret, "debugging_sessions") = PyInt(Cardinality(PersistedSessions))

RECURSIVE JsonNative(_)
\* a value built of None, bool, int, str, lists and str-keyed dicts only
JsonNative(v) ==
    CASE v.ty \in {"none", "str", "int", "bool"} -> TRUE
      [] v.ty = "list" -> \A i \in 1..Len(v.items) : JsonNative(v.items[i])
      [] v.ty = "dict" ->
            \A i \in 1..Len(v.items) :
                v.items[i][1].ty = "str" /\ JsonNative(v.items[i][2])
      [] OTHER -> FALSE

\* a get of a key that was put successfully has just returned
GotAfterPut ==
    /\ pc = "idle"
    /\ op = "get"
    /\ lastGet.key \in TestKeys
    /\ lastPutOf[lastGet.key].written
    /\ lastGet.outcome # "io_error"

\* C8 as claimed: the store holds one record per key at most, and get(k)
\* returns a value equal to the value of the most recent put(k, v)
C8_AsClaimed ==
    /\ \A k \in TestKeys : Cardinality(SelectValue(memory_store, k)) <= 1
    /\ GotAfterPut => ret = lastPutOf[lastGet.key].data

\* C8, amended: the store holds one record per key at most, and a get(k)
\* that reads the store returns json.loads(json.dumps(v)) for the most recent
\* successful put(k, v), never an older value; that is v itself when v is
\* built of None, bool, int, str, lists and str-keyed dicts (a tuple comes
\* back as a list, a dict key that is no str as its text)
C8_LastWriteWins ==
    /\ \A k \in TestKeys : Cardinality(SelectValue(memory_store, k)) <= 1
    /\ GotAfterPut =>
          /\ ret = json_loads(json_dumps(lastPutOf[lastGet.key].data))
          /\ JsonNative(lastPutOf[lastGet.key].data) => ret = lastPutOf[lastGet.key].data

\* get("k1") returned the list put last, while "k2" holds a tuple's record
C8_Witness ==
    /\ GotAfterPut
    /\ lastGet.key = "k1"
    /\ lastPutOf["k1"].data = PyList(<<PyStr("a")>>)
    /\ ret = PyList(<<PyStr("a")>>)
    /\ lastPutOf["k2"].data = PyTuple(<<PyStr("a")>>)
    /\ Cardinality(memory_store) >= 2

\* the record the last get looked for
Looked == SelectValue(memory_store, lastGet.key)
Corrupted == \E r \in Looked : r.value = JsonGarbage
GotAfterRead == pc = "idle" /\ op = "get" /\ lastGet.outcome # "io_error"

\* C9 as claimed: get(k) returns "absent" for a key without record, and for
\* a record that cannot be decoded something the caller can tell from that
C9_AsClaimed ==
    GotAfterRead =>
        /\ Looked = {} => ret = PyNone
        /\ Corrupted => ret # PyNone

\* C9, amended: get(k) returns None for a key without record and raises
\* nothing; for a record that cannot be decoded the error is caught and the
\* call returns None as well, so the caller cannot tell the two apart
C9_AbsentAndCorrupted ==
    GotAfterRead =>
        /\ Looked = {} => ret = PyNone
        /\ Corrupted => ret = PyNone

\* get of the corrupted record under swarms/debugging/context returned None
C9_Witness ==
    /\ GotAfterRead
    /\ lastGet.key = ContextKey
    /\ Corrupted
    /\ lastGet.outcome = "decode_error"
    /\ ret = PyNone


----------------------------------------------------------------------------
(* C11: one call per worker, in registry order *)

InDispatch == pc = "agent_run" \/ DispatchDone

\* the keys of a dict, in insertion order
KeySeq(d) == [k \in 1..Len(d.items) |-> d.items[k][1]]

\* C11: at every point of a dispatch the workers called so far are
\* agents[1..idx-1], each called once and in registry order, and the result
\* mapping holds one entry per called worker in that same order; when the
\* loop is over every worker has been called and the mapping has 5 entries
C11_OncePerWorkerInOrder ==
    /\ InDispatch =>
        /\ Analyses = 1..(idx - 1)
        /\ \A i \in Analyses : prompts[i].agent = agents[i]
        /\ KeySeq(results) = [i \in 1..(idx - 1) |-> PyStr(agents[i])]
    /\ DispatchDone =>
        /\ idx = Len(agents) + 1
        /\ Len(results.items) = 5
        /\ Len(agents) = 5

\* the loop is over after the first and the last worker raised: the mapping
\* still has its five entries, the first FrontendDebugger, the last
\* PerformanceAnalyzer
C11_Witness ==
    /\ pc = "store_session"
    /\ Returned(Analyses) = {2, 3, 4}
    /\ Len(results.items) = 5
    /\ results.items[1][1] = PyStr("FrontendDebugger")
    /\ results.items[5][1] = PyStr("PerformanceAnalyzer")

----------------------------------------------------------------------------
(* C12: one record per session *)

\* C12 as claimed: no session overwrites the record of another, so when no
\* session is running the store holds as many session records as sessions
\* were persisted, also when two of them started within one clock second
C12_AsClaimed ==
    pc = "idle" => Cardinality(PersistedSessions) = nSessions

----------------------------------------------------------------------------
(* C13: the order of the hook events of a session *)

\* the names of the hooks the running session has invoked, in order
HookNames == [i \in 1..Len(sessionHooks) |-> sessionHooks[i].hook]

\* C13 as claimed: pre-task is invoked before the read of
\* swarms/debugging/context and before any worker is called; post-task and
\* then notify are invoked only after every worker was dispatched, the
\* solution was produced and the write of the session record was done; and
\* every session invokes each of the three exactly once
C13_AsClaimed ==
    /\ pc = "pre_task" => HookNames = <<>> /\ prompts = <<>>
    /\ pc = "load_context" => prompts = <<>>
    /\ pc \in {"load_context", "coordinate_debugging", "agent_run", "store_session",
               "solve", "post_task"} => HookNames = <<"pre-task">>
    /\ Len(HookNames) >= 2 =>
          /\ Analyses = 1..Len(agents)
          /\ Has(session_data, "coordinated_solution")
          /\ SessionRows # {} \/ "store" \in sessionFaults
    /\ pc = "notify" => HookNames = <<"pre-task", "post-task">>
    /\ SessionEnded => HookNames = <<"pre-task", "post-task", "notify">>

----------------------------------------------------------------------------
(* C14: loading the previous context *)

ContextRows == {r \in memory_store : dbExists /\ r.key = ContextKey}

\* the record under swarms/debugging/context is there and can be decoded
ContextStored == \E r \in ContextRows : r.value # JsonGarbage

StoredContext == json_loads((CHOOSE r \in ContextRows : TRUE).value)

\* {**(context or {}), "previous_findings": value}
WithPreviousFindings(c, value) ==
    DictMerge(IF Truthy(c) THEN c ELSE EmptyDict,
              PyDict(<< <<PyStr("previous_findings"), value>> >>))

\* the step of a session that reads swarms/debugging/context, the read
\* itself not failing
ContextLoaded ==
    /\ pc = "load_context"
    /\ pc' = "coordinate_debugging"
    /\ lastGet'.outcome # "io_error"

\* C14 as claimed: whenever the key swarms/debugging/context is in the store
\* at session start, whatever value it holds, the session's context becomes
\* the caller's context plus previous_findings bound to that value; when
\* the key is absent the context stays the caller's
C14_AsClaimed ==
    [][ContextLoaded =>
          IF ContextStored
          THEN context' = WithPreviousFindings(context, StoredContext)
          ELSE ContextRows = {} => context' = context]_vars

\* C14, amended: the stored value is merged under previous_findings only
\* when it is truthy (a non-empty mapping, list or string, a non-zero
\* number, true); when the key is absent, when its record cannot be read or
\* decoded, and when the stored value is empty, the context stays the
\* caller's
C14_ContextLoading ==
    [][(pc = "load_context" /\ pc' = "coordinate_debugging") =>
          IF ContextStored /\ Truthy(StoredContext) /\ lastGet'.outcome # "io_error"
          THEN context' = WithPreviousFindings(context, StoredContext)
          ELSE context' = context]_vars

\* a session read a non-empty record and merged it into the caller's context
C14_Witness ==
    /\ pc = "coordinate_debugging"
    /\ ContextStored
    /\ Truthy(StoredContext)
    /\ Has(context, "branch")
    /\ Has(context, "previous_findings")
    /\ Key(context, "previous_findings") = StoredContext

----------------------------------------------------------------------------
(* C15: a failed write of the session record *)

\* the write of the session record failed; the synthesis call that follows
\* it did not raise
StoreWriteFailed ==
    /\ "store" \in sessionFaults
    /\ "solve" \notin sessionFaults

\* C15: when the write of the session record fails the session goes on: the
\* store holds no record of the session, and the session ends with
\* post-task and notify invoked after pre-task and with the DebugSession
\* record returned to the caller
C15_StoreFailureNotFatal ==
    /\ (pc \in {"solve", "post_task", "notify"} /\ "store" \in sessionFaults) =>
          SessionRows = {}
    /\ (SessionEnded /\ StoreWriteFailed) =>
          /\ HookNames = <<"pre-task", "post-task", "notify">>
          /\ CompleteRecord(ret)
          /\ ret = session_data
          /\ Key(ret, "session_id") = PyStr(session_id)
          /\ SessionRows = {}

\* a session ended whose record could not be written: the three hooks were
\* invoked, the record was returned, the store has no row for it
C15_Witness ==
    /\ SessionEnded
    /\ StoreWriteFailed
    /\ Len(sessionHooks) = 3
    /\ CompleteRecord(ret)
    /\ dbExists
    /\ SessionRows = {}

----------------------------------------------------------------------------
(* C16: what a later session sees of an earlier one *)

\* C16 as claimed: a session that runs after an earlier session was
\* persisted has, once it has read the store, a context that holds
\* previous_findings
C16_AsClaimed ==
    (nSessions >= 2 /\ PersistedSessions # {}
        /\ pc \in {"coordinate_debugging", "agent_run", "store_session", "solve",
                   "post_task", "notify"}) =>
        Has(context, "previous_findings")

----------------------------------------------------------------------------
(* C17: one record per message *)

CommKeys == {CommKey(t) : t \in 0..MaxTime}
CommRows == {r \in memory_store : r.key \in CommKeys}

\* C17 as claimed: every message is kept under a key of its own, so when no
\* operation is running the store holds as many communication records as
\* messages were sent, and the message just sent is among them as returned
C17_AsClaimed ==
    pc = "idle" =>
        /\ Cardinality(CommRows) = nSends
        /\ op = "communicate_with_claude_agents" =>
              \E r \in CommRows : json_loads(r.value) = ret

----------------------------------------------------------------------------
(* C18: get_coordination_status reads only *)

\* a step that is a call of get_coordination_status
StatusStep == pc = "idle" /\ op' = "get_coordination_status"

\* C18: a call of status leaves the store's rows, the existence of its
\* file, the coordination log, the registry and the in-session findings as
\* they were, and invokes no hook and no worker
C18_StatusPureRead ==
    [][StatusStep =>
          UNCHANGED <<memory_store, dbExists, coordination_log, swarm, agents,
                      debug_memory, hookCalls, prompts>>]_vars

\* status was called while the store's file did not exist, and it still
\* does not exist
C18_Witness ==
    /\ pc = "idle"
    /\ op = "get_coordination_status"
    /\ ~dbExists
    /\ Key(ret, "memory_db_exists") = PyBool(FALSE)
    /\ Key(ret, "debugging_sessions") = PyInt(0)

----------------------------------------------------------------------------
(* C19: findings do not pass from one dispatch to the next *)

\* what the workers return in the running session
SessionResponses == {Response(agents[j]) : j \in 1..Len(agents)}

\* the values of a dict
ValueSet(d) == {d.items[k][2] : k \in 1..Len(d.items)}

\* C19: every dispatch starts with empty shared findings and an empty
\* result mapping, so the first worker of every session is handed an empty
\* findings mapping, and every finding handed to a worker was returned in
\* the same session
C19_NoLeakBetweenDispatches ==
    /\ (pc = "agent_run" /\ idx = 1) =>
          AgentFindings = EmptyDict /\ results = EmptyDict
    /\ \A i \in Analyses :
          /\ i = 1 => prompts[i].findings = EmptyDict
          /\ ValueSet(prompts[i].findings) \subseteq SessionResponses

\* the first worker of the second session was called with empty findings,
\* after a first session whose five workers all left findings
C19_Witness ==
    /\ nSessions = 2
    /\ PersistedSessions # {}
    /\ pc = "agent_run"
    /\ idx = 2
    /\ prompts[1].findings = EmptyDict
    /\ KeySet(AgentFindings) = AgentKeys({1})

----------------------------------------------------------------------------
(* C20: a worker that raised leaves nothing in the shared findings *)

\* the texts recorded for workers that raised
ErrorResults == {ErrorResult(msg) : msg \in ErrorMessages}

\* C20: at every point of a dispatch the keys of the findings accumulator
\* are the names of the workers that have returned, its values are the
\* results recorded for them, a worker that raised has its "Error: ..."
\* text in the result mapping only, and no worker was handed such a text
C20_ErrorsStayOutOfFindings ==
    InDispatch =>
        /\ KeySet(AgentFindings) = AgentKeys(Returned(Analyses))
        /\ \A j \in Analyses :
              IF prompts[j].returned
              THEN DictGet(AgentFindings, PyStr(agents[j])) = DictGet(results, PyStr(agents[j]))
              ELSE /\ DictGet(results, PyStr(agents[j])) = ErrorResult(prompts[j].error)
                   /\ ~HasKey(AgentFindings, PyStr(agents[j]))
        /\ ValueSet(AgentFindings) \cap ErrorResults = {}
        /\ \A i \in Analyses : ValueSet(prompts[i].findings) \cap ErrorResults = {}

\* the fourth worker is about to be called after the first and the third
\* raised: the accumulator holds the second worker's result only, and the
\* result mapping the two error texts
C20_Witness ==
    /\ pc = "agent_run"
    /\ idx = 4
    /\ Returned(Analyses) = {2}
    /\ KeySet(AgentFindings) = AgentKeys({2})
    /\ DictGet(results, PyStr(agents[1])) = ErrorResult("boom")
    /\ DictGet(results, PyStr(agents[3])) = ErrorResult("boom")

====
